---- MODULE Spec2Model ----
(***************************************************************************)
(* Elevator Distributor Finder (src/main.py).                              *)
(*                                                                         *)
(* get_elevator_distributors(area) is modelled as a coroutine whose        *)
(* position is pc[r]; every action is the code between two awaits.         *)
(* scrape_site_details(url) is a synchronous function and is modelled as   *)
(* the operator scrape_site_details over the page the url serves.          *)
(***************************************************************************)
EXTENDS Integers, Sequences, FiniteSets, TLC

\* ------------------------------------------------------------------------
\* Bounds of the model
\* ------------------------------------------------------------------------
MaxPhrases == 2     \* number of QUERY_SYNONYMS entries that are searched
MaxPageLen == 2     \* result items in one search response
MaxFragments == 2   \* text fragments concatenated into one page text
MaxAreaLen == 4     \* characters of an area string given to normalize

\* ------------------------------------------------------------------------
\* Program constants
\* ------------------------------------------------------------------------
CACHE_TTL == 3600
PAGE_DELAY == 2

\* Python's None.
None == "None"

\* Python truthiness of an optional string (None and "" are falsy).
Truthy(v) == v \notin {None, ""}

QUERY_SYNONYMS ==
    SubSeq(<< "distribuidores de ascensores", "ascensoristas",
              "proveedores de ascensores", "elevator distributors",
              "lift distributors" >>, 1, MaxPhrases)

\* ------------------------------------------------------------------------
\* The environment: callers, areas, the clock and the external services
\* ------------------------------------------------------------------------
Runs == {"r1", "r2"}
Areas == {"madrid", "lugo"}
PlaceIds == {"p1", "p2", "p3"}
PlaceName == [p1 |-> "Otis", p2 |-> "Kone", p3 |-> "Orona", None |-> None]
PlaceAddr == [p1 |-> "Calle 1", p2 |-> "Calle 2", p3 |-> "Calle 3", None |-> None]
Tokens == {"t1", "t2"}
Phones == {"600"}
Websites == {None, "http://w"}

\* The instants at which the monotonic clock is observed.
Instants == {0, PAGE_DELAY, CACHE_TTL, CACHE_TTL + PAGE_DELAY}

Max(a, b) == IF a >= b THEN a ELSE b

\* One item of a text-search response: p.get("place_id"), p.get("name"),
\* p.get("formatted_address").
Item(pid) == [place_id |-> pid, name |-> PlaceName[pid],
              formatted_address |-> PlaceAddr[pid]]

SeqsUpTo(S, n) == UNION {[1..k -> S] : k \in 0..n}

VARIABLES
    world,        \* [callers, areas, places, tokens, websites, instants]: who
                  \* calls for which areas, the place ids (None: an item
                  \* without one), continuation tokens and websites the
                  \* services answer with, the instants at which the clock is
                  \* observed
    clock,        \* time.monotonic()
    cache_store,  \* area -> <<timestamp, results>>, domain = cached areas
    inflight,     \* requests issued to the external services, not yet answered
    pc,           \* per call: position in get_elevator_distributors
    area,         \* per call: the argument
    now,          \* per call: local now
    ts,           \* per call: << local ts >>, << >> while it is not assigned
    base,         \* per call: index of the phrase in QUERY_SYNONYMS
    token,        \* per call: local token
    page,         \* per call: local page, the body of the last response
    timer,        \* per call: remaining time of asyncio.sleep(2)
    seen_ids,     \* per call: local seen_ids
    prelim,       \* per call: local prelim
    tasks,        \* per call: the fetch tasks given to asyncio.gather
    returned,     \* per call: << the list returned to the caller >>, << >> if none
    site,         \* scrape_site_details: the page behind the url
    info,         \* scrape_site_details: the returned dict
    spc,          \* scrape_site_details: "call" or "returned"
    raw           \* per call: the area parameter of the route that calls

runVars == <<pc, area, now, ts, base, token, page, timer, seen_ids, prelim, tasks,
            returned>>
mainVars == <<world, clock, cache_store, inflight, runVars>>
scrapeVars == <<site, info, spc>>
vars == <<mainVars, scrapeVars, raw>>


\* ------------------------------------------------------------------------
\* Text: strings that the code searches are sequences of characters
\* ------------------------------------------------------------------------
UpperCase == << "A", "B", "C", "D", "E", "F", "G", "H", "I", "J", "K", "L", "M",
               "N", "O", "P", "Q", "R", "S", "T", "U", "V", "W", "X", "Y", "Z" >>
LowerCase == << "a", "b", "c", "d", "e", "f", "g", "h", "i", "j", "k", "l", "m",
               "n", "o", "p", "q", "r", "s", "t", "u", "v", "w", "x", "y", "z" >>

\* str.lower(), character by character.
LowerChar(c) ==
    IF \E i \in 1..Len(UpperCase) : UpperCase[i] = c
    THEN LowerCase[CHOOSE i \in 1..Len(UpperCase) : UpperCase[i] = c]
    ELSE c

Lower(s) == [i \in 1..Len(s) |-> LowerChar(s[i])]

\* Python's `needle in haystack` for strings.
Contains(hay, needle) ==
    \E i \in 1..(Len(hay) - Len(needle) + 1) :
        SubSeq(hay, i, i + Len(needle) - 1) = needle

\* The characters str.strip() and str.split() take for whitespace.
Whitespace == {" ", "\t"}

\* str.strip(): leading and trailing whitespace removed.
RECURSIVE Strip(_)
Strip(s) ==
    IF s = << >> THEN s
    ELSE IF Head(s) \in Whitespace THEN Strip(Tail(s))
    ELSE IF s[Len(s)] \in Whitespace THEN Strip(SubSeq(s, 1, Len(s) - 1))
    ELSE s

\* str.split(): the maximal runs of characters that are not whitespace;
\* word is the run being read, words the runs read so far.
RECURSIVE Split(_, _, _)
Split(s, word, words) ==
    IF s = << >> THEN (IF word = << >> THEN words ELSE Append(words, word))
    ELSE IF Head(s) \in Whitespace
         THEN Split(Tail(s), << >>, IF word = << >> THEN words ELSE Append(words, word))
         ELSE Split(Tail(s), Append(word, Head(s)), words)

\* " ".join(words)
RECURSIVE Join(_)
Join(words) ==
    IF words = << >> THEN << >>
    ELSE IF Len(words) = 1 THEN words[1]
    ELSE words[1] \o << " " >> \o Join(Tail(words))

\* normalize without lower().
normalizeKeepCase(text) == Join(Split(Strip(text), << >>, << >>))

\* Lines 48-49: " ".join(text.strip().lower().split())
normalize(text) == Join(Split(Lower(Strip(text)), << >>, << >>))

kw_fabricante == << "f", "a", "b", "r", "i", "c", "a", "n", "t", "e" >>
kw_constructora == << "c", "o", "n", "s", "t", "r", "u", "c", "t", "o", "r", "a" >>
kw_marca == << "m", "a", "r", "c", "a" >>
kw_certific == << "c", "e", "r", "t", "i", "f", "i", "c" >>

TYPE_FABRICANTE == "Fabricante + Distribuidor"
\* "Constructora con instalaci\'on" in the source, written here in ASCII.
TYPE_CONSTRUCTORA == "Constructora con instalacion"
TYPE_PURO == "Distribuidor puro"
CompanyTypes == {TYPE_FABRICANTE, TYPE_CONSTRUCTORA, TYPE_PURO}

\* ------------------------------------------------------------------------
\* scrape_site_details
\* ------------------------------------------------------------------------
\* The statements of the try block, in order.  pg.raises names the one
\* that raises (None: none does): "get" an unreachable url, "status" a
\* non-success status, "soup" content the parser rejects, the others a
\* failure while walking the parsed tree.  A statement that raises is
\* taken to raise before it has changed info.
StageNo == [get |-> 1, status |-> 2, soup |-> 3, jsonld |-> 4, links |-> 5,
            headers |-> 6, text |-> 7, None |-> 8]

\* TRUE iff the statements of `stage` run to completion.
Completes(pg, stage) == StageNo[stage] < StageNo[pg.raises]

\* dict.get(key) with None for a missing key.
Get(d, key) == IF key \in DOMAIN d THEN d[key] ELSE None

\* A JSON value is [t |-> type, v |-> payload]; the payload of a list is a
\* sequence of JSON values, that of a dict with a "name" the one-element
\* sequence of its value, that of a dict without it the empty sequence.
JStr(s) == [t |-> "str", v |-> s]
JNum(s) == [t |-> "num", v |-> s]
JList(l) == [t |-> "list", v |-> l]
JDict(l) == [t |-> "dict", v |-> l]
JNull == [t |-> "null", v |-> None]

\* Lines 64-70: the items one JSON-LD block contributes to brands.
BrandItems(brand) ==
    IF brand.t = "list" THEN brand.v
    ELSE IF brand.t = "dict" /\ Len(brand.v) = 1 THEN << brand.v[1] >>
    ELSE IF brand.t = "str" THEN << brand >>
    ELSE << >>

\* d[key] = value on a dict that may or may not hold the key.
SetKey(d, key, value) ==
    [k \in DOMAIN d \cup {key} |-> IF k = key THEN value ELSE d[k]]

\* Lines 59-75: one pass over the JSON-LD scripts.  A script is
\* [kind, brand, type, foundingDate]: kind "invalid" is text json.loads
\* rejects (it raises inside the inner try and the script is skipped), kind
\* "other" is JSON that is not an object (skipped), kind "dict" an object
\* with data.get("brand"), data.get("@type") and data.get("foundingDate").
RECURSIVE JsonLd(_, _)
JsonLd(inf, scripts) ==
    IF scripts = << >> THEN inf
    ELSE LET s == Head(scripts)
             withBrands == [inf EXCEPT !.brands = @ \o BrandItems(s.brand)]
             withDate ==
                 IF s.type = "Organization" /\ Truthy(s.foundingDate)
                 THEN SetKey(withBrands, "founding_date", s.foundingDate)
                 ELSE withBrands
         IN JsonLd(IF s.kind = "dict" THEN withDate ELSE inf, Tail(scripts))

\* Lines 77-82: the first mailto link and the first linkedin company link.
\* pg.mailto and pg.linkedin are the matching links of the document in
\* order; a mailto href is [address, query] and
\* split("mailto:")[1].split("?")[0] keeps the address.
Links(inf, pg) ==
    LET withMail == IF pg.mailto # << >>
                    THEN [inf EXCEPT !.email = pg.mailto[1].address]
                    ELSE inf
    IN IF pg.linkedin # << >>
       THEN [withMail EXCEPT !.linkedin = pg.linkedin[1]]
       ELSE withMail

\* Lines 84-92: the list that follows each h2/h3/h4 heading.
RECURSIVE Headers(_, _)
Headers(inf, hs) ==
    IF hs = << >> THEN inf
    ELSE LET h == Head(hs)
             title == Lower(h.title)
             items == [i \in 1..Len(h.ul) |-> JStr(h.ul[i])]
             b == IF h.has_ul /\ Contains(title, kw_marca)
                  THEN [inf EXCEPT !.brands = @ \o items] ELSE inf
             c == IF h.has_ul /\ Contains(title, kw_certific)
                  THEN [b EXCEPT !.certifications = @ \o items] ELSE b
         IN Headers(c, Tail(hs))

\* Classify with the two keyword tests in the other order.
ClassifyConstructoraFirst(text) ==
    IF Contains(Lower(text), kw_constructora) THEN TYPE_CONSTRUCTORA
    ELSE IF Contains(Lower(text), kw_fabricante) THEN TYPE_FABRICANTE
    ELSE TYPE_PURO

\* Lines 94-100: the company type heuristic.
Classify(text) ==
    IF Contains(Lower(text), kw_fabricante) THEN TYPE_FABRICANTE
    ELSE IF Contains(Lower(text), kw_constructora) THEN TYPE_CONSTRUCTORA
    ELSE TYPE_PURO

\* DedupStrings that keeps the entries that are not strings.
RECURSIVE DedupAll(_, _)
DedupAll(l, acc) ==
    IF l = << >> THEN acc
    ELSE LET x == Head(l)
         IN IF \A i \in 1..Len(acc) : acc[i] # x.v
            THEN DedupAll(Tail(l), Append(acc, x.v))
            ELSE DedupAll(Tail(l), acc)

\* list(dict.fromkeys([b for b in l if isinstance(b, str)]))
RECURSIVE DedupStrings(_, _)
DedupStrings(l, acc) ==
    IF l = << >> THEN acc
    ELSE LET x == Head(l)
         IN IF x.t = "str" /\ \A i \in 1..Len(acc) : acc[i] # x.v
            THEN DedupStrings(Tail(l), Append(acc, x.v))
            ELSE DedupStrings(Tail(l), acc)

scrape_site_details(pg) ==
    LET info0 == [email |-> None, linkedin |-> None, brands |-> << >>,
                  certifications |-> << >>, company_type |-> None]
        info1 == IF Completes(pg, "jsonld") THEN JsonLd(info0, pg.scripts) ELSE info0
        info2 == IF Completes(pg, "links") THEN Links(info1, pg) ELSE info1
        info3 == IF Completes(pg, "headers") THEN Headers(info2, pg.headers) ELSE info2
        info4 == IF Completes(pg, "text")
                 THEN [info3 EXCEPT !.company_type = Classify(pg.text)]
                 ELSE info3
        deduped == [info4 EXCEPT !.brands = DedupStrings(@, << >>),
                                 !.certifications = DedupStrings(@, << >>)]
    IN deduped


\* ------------------------------------------------------------------------
\* Inputs of scrape_site_details
\* ------------------------------------------------------------------------
Fragments ==
    { kw_fabricante, kw_constructora,
      << "F", "A", "B", "R", "I", "C", "A", "N", "T", "E" >>,
      << "C", "o", "n", "s", "t", "r", "u", "c", "t", "o", "r", "a" >>,
      << "f", "a", "b", "r", "i", "c", "a" >>,
      << "n", "t", "e" >>,
      << " " >> }

RECURSIVE Concat(_)
Concat(ss) == IF ss = << >> THEN << >> ELSE Head(ss) \o Concat(Tail(ss))

Texts == {Concat(fs) : fs \in SeqsUpTo(Fragments, MaxFragments)}

NoScript == [kind |-> "other", brand |-> JNull, type |-> None, foundingDate |-> None]

ScriptLists ==
    { << >>,
      << [kind |-> "invalid", brand |-> JStr("Kone"), type |-> "Organization",
          foundingDate |-> "1990"] >>,
      << NoScript >>,
      << [kind |-> "dict", brand |-> JList(<< JStr("Otis"), JNum("7"), JStr("Otis") >>),
          type |-> "Organization", foundingDate |-> "1990"] >>,
      << [kind |-> "dict", brand |-> JDict(<< JStr("Kone") >>), type |-> "Person",
          foundingDate |-> "1990"],
         [kind |-> "dict", brand |-> JStr("Otis"), type |-> "Organization",
          foundingDate |-> None] >>,
      << [kind |-> "dict", brand |-> JList(<< JStr("Schindler") >>), type |-> "Organization",
          foundingDate |-> "1874"],
         [kind |-> "invalid", brand |-> JNull, type |-> None, foundingDate |-> None] >> }

title_marcas == << "M", "a", "r", "c", "a", "s" >>
title_certs == << "C", "E", "R", "T", "I", "F", "I", "C", "A", "D", "O", "S" >>
title_contacto == << "C", "o", "n", "t", "a", "c", "t", "o" >>

HeaderLists ==
    { << >>,
      << [title |-> title_marcas, has_ul |-> TRUE, ul |-> << "Otis", "Schindler" >>],
         [title |-> title_certs, has_ul |-> TRUE, ul |-> << "ISO 9001", "ISO 9001" >>] >>,
      << [title |-> title_marcas, has_ul |-> FALSE, ul |-> << >>],
         [title |-> title_contacto, has_ul |-> TRUE, ul |-> << "Kone" >>] >>,
      << [title |-> title_marcas \o << " " >> \o title_certs, has_ul |-> TRUE,
          ul |-> << "Schindler", "Otis", "Schindler" >>] >> }

Mailtos ==
    { << >>,
      << [address |-> "info@otis.es", query |-> "subject=hola"],
         [address |-> "ventas@otis.es", query |-> None] >> }
LinkedIns == {<< >>, << "https://www.linkedin.com/company/otis" >>}

Pages ==
    [raises : DOMAIN StageNo, scripts : ScriptLists, mailto : Mailtos,
     linkedin : LinkedIns, headers : HeaderLists, text : Texts]

\* The pages the candidates' websites serve in the aggregation runs.
SitePages ==
    { [raises |-> "get", scripts |-> << >>, mailto |-> << >>, linkedin |-> << >>,
       headers |-> << >>, text |-> << >>],
      [raises |-> None, scripts |-> << >>, mailto |-> << >>, linkedin |-> << >>,
       headers |-> << >>, text |-> kw_fabricante] }

\* ------------------------------------------------------------------------
\* get_elevator_distributors
\* ------------------------------------------------------------------------
\* CacheFresh with <= for <.
CacheFreshInclusive(a, t) ==
    /\ a \in DOMAIN cache_store
    /\ t - cache_store[a][1] <= CACHE_TTL

\* Lines 112-115: the cache serves area a to a call that reads the clock at t.
CacheFresh(a, t) ==
    /\ a \in DOMAIN cache_store
    /\ t - cache_store[a][1] < CACHE_TTL

\* Lines 124-130: the text-search request of phrase number b.
SearchReq(r, b, a, tok) ==
    [kind |-> "textsearch", run |-> r, query |-> << QUERY_SYNONYMS[b], a >>,
     pagetoken |-> tok, place_id |-> None]

\* Lines 143-146: the details request of task i.
DetailReq(r, i, pid) ==
    [kind |-> "details", run |-> r, query |-> << i >>, pagetoken |-> None,
     place_id |-> pid]

\* Line 55: the website fetch of task i.
SiteReq(r, i, url) ==
    [kind |-> "site", run |-> r, query |-> << i, url >>, pagetoken |-> None,
     place_id |-> None]

\* Merge with seen_ids looked up per page instead of per run.
RECURSIVE MergePerPage(_, _, _, _)
MergePerPage(seen, pre, items, local) ==
    IF items = << >> THEN << seen, pre >>
    ELSE LET p == Head(items)
             pid == p.place_id
         IN IF Truthy(pid) /\ pid \notin local
            THEN MergePerPage(seen \cup {pid},
                              Append(pre, << pid, p.name, p.formatted_address >>),
                              Tail(items), local \cup {pid})
            ELSE MergePerPage(seen, pre, Tail(items), local)

MergeSeenPerPage(seen, pre, items) == MergePerPage(seen, pre, items, {})

\* Lines 133-137: the result items of one page merged into seen_ids and
\* prelim; the value is << seen_ids, prelim >>.
RECURSIVE Merge(_, _, _)
Merge(seen, pre, items) ==
    IF items = << >> THEN << seen, pre >>
    ELSE LET p == Head(items)
             pid == p.place_id
         IN IF Truthy(pid) /\ pid \notin seen
            THEN Merge(seen \cup {pid},
                       Append(pre, << pid, p.name, p.formatted_address >>),
                       Tail(items))
            ELSE Merge(seen, pre, Tail(items))

\* The pages the search service can answer with.
ResultPages == SeqsUpTo({Item(pid) : pid \in world.places}, MaxPageLen)

\* Line 132: the body of a text-search response, page.get("results", [])
\* and page.get("next_page_token").
Response(results, tok) == [results |-> results, next_page_token |-> tok]

\* The local page before the first response.
NoResponse == Response(<< >>, None)

NoTask == [st |-> "none", phone |-> None, website |-> None, rec |-> None]

\* The locals of a call that has not reached them, or that has returned or
\* raised (its frame is gone).
ResetLocals(r) ==
    /\ ts' = [ts EXCEPT ![r] = << >>]
    /\ base' = [base EXCEPT ![r] = 0]
    /\ token' = [token EXCEPT ![r] = None]
    /\ page' = [page EXCEPT ![r] = NoResponse]
    /\ timer' = [timer EXCEPT ![r] = 0]
    /\ seen_ids' = [seen_ids EXCEPT ![r] = {}]
    /\ prelim' = [prelim EXCEPT ![r] = << >>]
    /\ tasks' = [tasks EXCEPT ![r] = << >>]

Callable(r) == r \in world.callers /\ pc[r] \in {"idle", "done", "failed"}

\* CacheHit that also renews the timestamp of the entry.
CacheHitTouch(r, a) ==
    /\ Callable(r)
    /\ CacheFresh(a, clock)
    /\ area' = [area EXCEPT ![r] = a]
    /\ now' = [now EXCEPT ![r] = clock]
    /\ returned' = [returned EXCEPT ![r] = << cache_store[a][2] >>]
    /\ pc' = [pc EXCEPT ![r] = "done"]
    /\ cache_store' = [cache_store EXCEPT ![a] = << clock, @[2] >>]
    /\ ResetLocals(r)
    /\ UNCHANGED << world, clock, inflight, scrapeVars >>

\* Lines 109-115, cache hit: the cached list is returned.
CacheHit(r, a) ==
    /\ Callable(r)
    /\ CacheFresh(a, clock)
    /\ area' = [area EXCEPT ![r] = a]
    /\ now' = [now EXCEPT ![r] = clock]
    /\ returned' = [returned EXCEPT ![r] = << cache_store[a][2] >>]
    /\ pc' = [pc EXCEPT ![r] = "done"]
    /\ ResetLocals(r)
    /\ UNCHANGED << world, clock, cache_store, inflight, scrapeVars >>

\* CacheMiss that does not look at the cache.
CacheMissAlways(r, a) ==
    /\ Callable(r)
    /\ area' = [area EXCEPT ![r] = a]
    /\ now' = [now EXCEPT ![r] = clock]
    /\ ts' = [ts EXCEPT ![r] = IF a \in DOMAIN cache_store
                                THEN << cache_store[a][1] >> ELSE << >>]
    /\ returned' = [returned EXCEPT ![r] = << >>]
    /\ seen_ids' = [seen_ids EXCEPT ![r] = {}]
    /\ prelim' = [prelim EXCEPT ![r] = << >>]
    /\ tasks' = [tasks EXCEPT ![r] = << >>]
    /\ base' = [base EXCEPT ![r] = 1]
    /\ token' = [token EXCEPT ![r] = None]
    /\ page' = [page EXCEPT ![r] = NoResponse]
    /\ timer' = [timer EXCEPT ![r] = 0]
    /\ inflight' = inflight \cup {SearchReq(r, 1, a, None)}
    /\ pc' = [pc EXCEPT ![r] = "search"]
    /\ UNCHANGED << world, clock, cache_store, scrapeVars >>

\* Lines 109-130, cache miss: the locals are set up and the first request
\* of the first phrase is issued without a token.
CacheMiss(r, a) ==
    /\ Callable(r)
    /\ ~CacheFresh(a, clock)
    /\ area' = [area EXCEPT ![r] = a]
    /\ now' = [now EXCEPT ![r] = clock]
    /\ ts' = [ts EXCEPT ![r] = IF a \in DOMAIN cache_store
                                THEN << cache_store[a][1] >> ELSE << >>]
    /\ returned' = [returned EXCEPT ![r] = << >>]
    /\ seen_ids' = [seen_ids EXCEPT ![r] = {}]
    /\ prelim' = [prelim EXCEPT ![r] = << >>]
    /\ tasks' = [tasks EXCEPT ![r] = << >>]
    /\ base' = [base EXCEPT ![r] = 1]
    /\ token' = [token EXCEPT ![r] = None]
    /\ page' = [page EXCEPT ![r] = NoResponse]
    /\ timer' = [timer EXCEPT ![r] = 0]
    /\ inflight' = inflight \cup {SearchReq(r, 1, a, None)}
    /\ pc' = [pc EXCEPT ![r] = "search"]
    /\ UNCHANGED << world, clock, cache_store, scrapeVars >>

\* The search request call r is waiting for.
Awaited(r) == SearchReq(r, base[r], area[r], token[r])

\* Lines 131-138 and 125-127: a page with a continuation token; the call
\* goes to sleep before the next request of the same phrase.
SearchPageMore(r, results, tok) ==
    /\ pc[r] = "search"
    /\ Awaited(r) \in inflight
    /\ Truthy(tok)
    /\ LET m == Merge(seen_ids[r], prelim[r], results)
       IN /\ page' = [page EXCEPT ![r] = Response(results, tok)]
          /\ seen_ids' = [seen_ids EXCEPT ![r] = m[1]]
          /\ prelim' = [prelim EXCEPT ![r] = m[2]]
    /\ token' = [token EXCEPT ![r] = tok]
    /\ timer' = [timer EXCEPT ![r] = PAGE_DELAY]
    /\ inflight' = inflight \ {Awaited(r)}
    /\ pc' = [pc EXCEPT ![r] = "sleep"]
    /\ UNCHANGED << world, clock, cache_store, area, now, ts, base, tasks, returned,
                    scrapeVars, raw >>

\* SleepDone that does not wait for the sleep to be over.
SleepDoneEarly(r) ==
    /\ pc[r] = "sleep"
    /\ inflight' = inflight \cup {Awaited(r)}
    /\ pc' = [pc EXCEPT ![r] = "search"]
    /\ UNCHANGED << world, clock, cache_store, area, now, ts, base, token, page, timer,
                    seen_ids, prelim, tasks, returned, scrapeVars, raw >>

\* Lines 127-130: asyncio.sleep(2) is over, the next page is requested with
\* the token.
SleepDone(r) ==
    /\ pc[r] = "sleep"
    /\ timer[r] = 0
    /\ inflight' = inflight \cup {Awaited(r)}
    /\ pc' = [pc EXCEPT ![r] = "search"]
    /\ UNCHANGED << world, clock, cache_store, area, now, ts, base, token, page, timer,
                    seen_ids, prelim, tasks, returned, scrapeVars, raw >>

\* SearchPageNextPhrase that asks the same phrase again.
SearchPageSamePhrase(r, results, tok) ==
    /\ pc[r] = "search"
    /\ Awaited(r) \in inflight
    /\ ~Truthy(tok)
    /\ base[r] < Len(QUERY_SYNONYMS)
    /\ LET m == Merge(seen_ids[r], prelim[r], results)
       IN /\ page' = [page EXCEPT ![r] = Response(results, tok)]
          /\ seen_ids' = [seen_ids EXCEPT ![r] = m[1]]
          /\ prelim' = [prelim EXCEPT ![r] = m[2]]
    /\ token' = [token EXCEPT ![r] = None]
    /\ inflight' = (inflight \ {Awaited(r)}) \cup {SearchReq(r, base[r], area[r], None)}
    /\ UNCHANGED << world, clock, cache_store, pc, area, now, ts, base, timer, tasks,
                    returned, scrapeVars, raw >>

\* Lines 131-140 and 121-130: a page without a token, more phrases to go;
\* the first request of the next phrase is issued.
SearchPageNextPhrase(r, results, tok) ==
    /\ pc[r] = "search"
    /\ Awaited(r) \in inflight
    /\ ~Truthy(tok)
    /\ base[r] < Len(QUERY_SYNONYMS)
    /\ LET m == Merge(seen_ids[r], prelim[r], results)
       IN /\ page' = [page EXCEPT ![r] = Response(results, tok)]
          /\ seen_ids' = [seen_ids EXCEPT ![r] = m[1]]
          /\ prelim' = [prelim EXCEPT ![r] = m[2]]
    /\ base' = [base EXCEPT ![r] = @ + 1]
    /\ token' = [token EXCEPT ![r] = None]
    /\ inflight' = (inflight \ {Awaited(r)})
                       \cup {SearchReq(r, base[r] + 1, area[r], None)}
    /\ UNCHANGED << world, clock, cache_store, pc, area, now, ts, timer, tasks,
                    returned, scrapeVars, raw >>

\* SearchPageGather with one seen_ids for all the calls.
SearchPageGatherSharedSeen(r, results, tok) ==
    /\ pc[r] = "search"
    /\ Awaited(r) \in inflight
    /\ ~Truthy(tok)
    /\ base[r] = Len(QUERY_SYNONYMS)
    /\ LET m == Merge(UNION {seen_ids[c] : c \in Runs}, prelim[r], results)
       IN /\ page' = [page EXCEPT ![r] = Response(results, tok)]
          /\ seen_ids' = [seen_ids EXCEPT ![r] = m[1]]
          /\ prelim' = [prelim EXCEPT ![r] = m[2]]
          /\ tasks' = [tasks EXCEPT ![r] =
                          [i \in 1..Len(m[2]) |-> [NoTask EXCEPT !.st = "detail"]]]
          /\ inflight' = (inflight \ {Awaited(r)})
                            \cup {DetailReq(r, i, m[2][i][1]) : i \in 1..Len(m[2])}
    /\ token' = [token EXCEPT ![r] = tok]
    /\ pc' = [pc EXCEPT ![r] = "gather"]
    /\ UNCHANGED << world, clock, cache_store, area, now, ts, base, timer, returned,
                    scrapeVars, raw >>

\* SearchPageGather that does not wait for the last phrase.
SearchPageGatherAnyPhrase(r, results, tok) ==
    /\ pc[r] = "search"
    /\ Awaited(r) \in inflight
    /\ ~Truthy(tok)
    /\ LET m == Merge(seen_ids[r], prelim[r], results)
       IN /\ page' = [page EXCEPT ![r] = Response(results, tok)]
          /\ seen_ids' = [seen_ids EXCEPT ![r] = m[1]]
          /\ prelim' = [prelim EXCEPT ![r] = m[2]]
          /\ tasks' = [tasks EXCEPT ![r] =
                          [i \in 1..Len(m[2]) |-> [NoTask EXCEPT !.st = "detail"]]]
          /\ inflight' = (inflight \ {Awaited(r)})
                            \cup {DetailReq(r, i, m[2][i][1]) : i \in 1..Len(m[2])}
    /\ token' = [token EXCEPT ![r] = tok]
    /\ pc' = [pc EXCEPT ![r] = "gather"]
    /\ UNCHANGED << world, clock, cache_store, area, now, ts, base, timer, returned,
                    scrapeVars, raw >>

\* Lines 131-155: a page without a token for the last phrase; one fetch
\* task per entry of prelim is created and each issues its details request.
SearchPageGather(r, results, tok) ==
    /\ pc[r] = "search"
    /\ Awaited(r) \in inflight
    /\ ~Truthy(tok)
    /\ base[r] = Len(QUERY_SYNONYMS)
    /\ LET m == Merge(seen_ids[r], prelim[r], results)
       IN /\ page' = [page EXCEPT ![r] = Response(results, tok)]
          /\ seen_ids' = [seen_ids EXCEPT ![r] = m[1]]
          /\ prelim' = [prelim EXCEPT ![r] = m[2]]
          /\ tasks' = [tasks EXCEPT ![r] =
                          [i \in 1..Len(m[2]) |-> [NoTask EXCEPT !.st = "detail"]]]
          /\ inflight' = (inflight \ {Awaited(r)})
                            \cup {DetailReq(r, i, m[2][i][1]) : i \in 1..Len(m[2])}
    /\ token' = [token EXCEPT ![r] = tok]
    /\ pc' = [pc EXCEPT ![r] = "gather"]
    /\ UNCHANGED << world, clock, cache_store, area, now, ts, base, timer, returned,
                    scrapeVars, raw >>

\* Raise that caches an empty list for the area.
RaiseCachingPartial(r) ==
    /\ pc' = [pc EXCEPT ![r] = "failed"]
    /\ returned' = [returned EXCEPT ![r] = << >>]
    /\ inflight' = {q \in inflight : q.run # r}
    /\ cache_store' = SetKey(cache_store, area[r], << now[r], << >> >>)
    /\ ResetLocals(r)
    /\ UNCHANGED << world, clock, area, now, scrapeVars, raw >>

\* An exception leaves get_elevator_distributors: the client is closed,
\* nothing is returned and the frame is gone.
Raise(r) ==
    /\ pc' = [pc EXCEPT ![r] = "failed"]
    /\ returned' = [returned EXCEPT ![r] = << >>]
    /\ inflight' = {q \in inflight : q.run # r}
    /\ ResetLocals(r)
    /\ UNCHANGED << world, clock, cache_store, area, now, scrapeVars, raw >>

\* Lines 128-131: the search request fails or raise_for_status raises.
SearchFail(r) ==
    /\ pc[r] = "search"
    /\ Awaited(r) \in inflight
    /\ Raise(r)

\* Lines 147-152: the details of task i arrive.  Without a website the
\* record is complete (extras = {}), with one scrape_site_details is
\* started in a thread.
DetailResponse(r, i, phone, website) ==
    /\ pc[r] = "gather"
    /\ i \in 1..Len(tasks[r])
    /\ tasks[r][i].st = "detail"
    /\ LET rec == [company |-> prelim[r][i][2], address |-> prelim[r][i][3],
                   phone |-> phone, website |-> website]
       IN IF Truthy(website)
          THEN /\ tasks' = [tasks EXCEPT ![r][i] =
                               [NoTask EXCEPT !.st = "scrape", !.phone = phone,
                                              !.website = website]]
               /\ inflight' = (inflight \ {DetailReq(r, i, prelim[r][i][1])})
                                 \cup {SiteReq(r, i, website)}
          ELSE /\ tasks' = [tasks EXCEPT ![r][i] =
                               [NoTask EXCEPT !.st = "done", !.phone = phone,
                                              !.website = website, !.rec = rec]]
               /\ inflight' = inflight \ {DetailReq(r, i, prelim[r][i][1])}
    /\ UNCHANGED << world, clock, cache_store, pc, area, now, ts, base, token, page,
                    timer, seen_ids, prelim, returned, scrapeVars, raw >>

\* Lines 143-147: the details request of task i fails; gather re-raises.
DetailFail(r, i) ==
    /\ pc[r] = "gather"
    /\ i \in 1..Len(tasks[r])
    /\ tasks[r][i].st = "detail"
    /\ Raise(r)

\* Lines 151-152: scrape_site_details returns for task i; pg is the page
\* the website served.
ScrapeDone(r, i, pg) ==
    /\ pc[r] = "gather"
    /\ i \in 1..Len(tasks[r])
    /\ tasks[r][i].st = "scrape"
    /\ LET t == tasks[r][i]
           rec == [company |-> prelim[r][i][2], address |-> prelim[r][i][3],
                   phone |-> t.phone, website |-> t.website]
                      @@ scrape_site_details(pg)
       IN tasks' = [tasks EXCEPT ![r][i] = [t EXCEPT !.st = "done", !.rec = rec]]
    /\ inflight' = inflight \ {SiteReq(r, i, tasks[r][i].website)}
    /\ UNCHANGED << world, clock, cache_store, pc, area, now, ts, base, token, page,
                    timer, seen_ids, prelim, returned, scrapeVars, raw >>

\* Store that returns the records in the reverse order.
StoreReversed(r) ==
    /\ pc[r] = "gather"
    /\ \A i \in 1..Len(tasks[r]) : tasks[r][i].st = "done"
    /\ LET n == Len(tasks[r])
           results == [i \in 1..n |-> tasks[r][n + 1 - i].rec]
       IN /\ cache_store' = SetKey(cache_store, area[r], << now[r], results >>)
          /\ returned' = [returned EXCEPT ![r] = << results >>]
    /\ pc' = [pc EXCEPT ![r] = "done"]
    /\ ResetLocals(r)
    /\ UNCHANGED << world, clock, inflight, area, now, scrapeVars, raw >>

\* Store that does not wait for the tasks.
StoreEarly(r) ==
    /\ pc[r] = "gather"
    /\ LET results == [i \in 1..Len(tasks[r]) |-> tasks[r][i].rec]
       IN /\ cache_store' = SetKey(cache_store, area[r], << now[r], results >>)
          /\ returned' = [returned EXCEPT ![r] = << results >>]
    /\ pc' = [pc EXCEPT ![r] = "done"]
    /\ ResetLocals(r)
    /\ UNCHANGED << world, clock, inflight, area, now, scrapeVars, raw >>

\* Lines 155-159: every task is done; the results are cached under the
\* local now and returned.
Store(r) ==
    /\ pc[r] = "gather"
    /\ \A i \in 1..Len(tasks[r]) : tasks[r][i].st = "done"
    /\ LET results == [i \in 1..Len(tasks[r]) |-> tasks[r][i].rec]
       IN /\ cache_store' = SetKey(cache_store, area[r], << now[r], results >>)
          /\ returned' = [returned EXCEPT ![r] = << results >>]
    /\ pc' = [pc EXCEPT ![r] = "done"]
    /\ ResetLocals(r)
    /\ UNCHANGED << world, clock, inflight, area, now, scrapeVars, raw >>

\* Time passes: the clock reaches a later instant, the sleeps run down.
Tick(t) ==
    /\ t \in world.instants
    /\ t > clock
    /\ clock' = t
    /\ timer' = [r \in Runs |-> Max(0, timer[r] - (t - clock))]
    /\ UNCHANGED << world, cache_store, inflight, pc, area, now, ts, base, token, page,
                    seen_ids, prelim, tasks, returned, scrapeVars, raw >>

\* ------------------------------------------------------------------------
\* Specifications
\* ------------------------------------------------------------------------
NoPage == [raises |-> None, scripts |-> << >>, mailto |-> << >>, linkedin |-> << >>,
           headers |-> << >>, text |-> << >>]

RunInit ==
    /\ clock = 0
    /\ cache_store = << >>
    /\ inflight = {}
    /\ pc = [r \in Runs |-> "idle"]
    /\ area = [r \in Runs |-> None]
    /\ now = [r \in Runs |-> 0]
    /\ ts = [r \in Runs |-> << >>]
    /\ base = [r \in Runs |-> 0]
    /\ token = [r \in Runs |-> None]
    /\ page = [r \in Runs |-> NoResponse]
    /\ timer = [r \in Runs |-> 0]
    /\ seen_ids = [r \in Runs |-> {}]
    /\ prelim = [r \in Runs |-> << >>]
    /\ tasks = [r \in Runs |-> << >>]
    /\ returned = [r \in Runs |-> << >>]
    /\ raw = [r \in Runs |-> << >>]

ScrapeIdle ==
    /\ site = NoPage
    /\ info = None
    /\ spc = "idle"

\* One caller, every area, one place: the cache and the clock.
Init ==
    /\ world = [callers |-> {"r1"}, areas |-> Areas, places |-> {"p1", None},
                tokens |-> Tokens, websites |-> Websites, instants |-> Instants]
    /\ RunInit
    /\ ScrapeIdle

\* One caller, one area, every place, one token, no websites, no expiry:
\* search and dedup.
SearchInit ==
    /\ world = [callers |-> {"r1"}, areas |-> {"madrid"},
                places |-> PlaceIds \cup {None},
                tokens |-> {"t1"}, websites |-> {None},
                instants |-> {0, PAGE_DELAY, 2 * PAGE_DELAY}]
    /\ RunInit
    /\ ScrapeIdle

\* The steps of a call after it has missed the cache.
RunStep(r) ==
    \/ \E results \in ResultPages, tok \in world.tokens : SearchPageMore(r, results, tok)
    \/ SleepDone(r)
    \/ \E results \in ResultPages : SearchPageNextPhrase(r, results, None)
    \/ \E results \in ResultPages : SearchPageGather(r, results, None)
    \/ SearchFail(r)
    \/ \E i \in 1..Len(tasks[r]), phone \in Phones, website \in world.websites :
           DetailResponse(r, i, phone, website)
    \/ \E i \in 1..Len(tasks[r]) : DetailFail(r, i)
    \/ Store(r)

\* A caller calls with an area that is already normalized, or a call goes
\* on.
RunNext ==
    \E r \in Runs :
        \/ \E a \in world.areas : CacheHit(r, a) /\ UNCHANGED raw
        \/ \E a \in world.areas : CacheMiss(r, a) /\ UNCHANGED raw
        \/ RunStep(r)

ScrapeNext ==
    \E r \in Runs : \E i \in 1..Len(tasks[r]), pg \in SitePages : ScrapeDone(r, i, pg)

TimeNext == \E t \in world.instants : Tick(t)

Next == RunNext \/ ScrapeNext \/ TimeNext

SearchNext == RunNext \/ TimeNext

Spec == Init /\ [][Next]_vars

SearchSpec == SearchInit /\ [][SearchNext]_vars

\* One caller, one area, two places with and without websites, no expiry:
\* the enrichment phase.
GatherInit ==
    /\ world = [callers |-> {"r1"}, areas |-> {"madrid"},
                places |-> {"p1", "p2", None},
                tokens |-> {"t1"}, websites |-> Websites,
                instants |-> {0, PAGE_DELAY}]
    /\ RunInit
    /\ ScrapeIdle

GatherSpec == GatherInit /\ [][Next]_vars

\* Two callers whose runs interleave, one area, one place, no websites:
\* the cache and the locals under concurrent calls.
RaceInit ==
    /\ world = [callers |-> Runs, areas |-> {"madrid"}, places |-> {"p1"},
                tokens |-> {"t1"}, websites |-> {None},
                instants |-> {0, PAGE_DELAY, CACHE_TTL}]
    /\ RunInit
    /\ ScrapeIdle

RaceSpec == RaceInit /\ [][SearchNext]_vars

\* Lines 231-239, api_results; results (lines 175-176) and export (lines
\* 206-207) begin in the same way: the area parameter is normalized and
\* get_elevator_distributors is called with the result.
api_results(r, x) ==
    /\ raw' = [raw EXCEPT ![r] = x]
    /\ \/ CacheHit(r, normalize(x))
       \/ CacheMiss(r, normalize(x))

\* Area parameters that differ in letter case and in whitespace.
area_upper == << "A", " ", "b" >>
area_spaced == << "a", " ", "\t", "b" >>

\* Two callers that come in through a route with one or the other area
\* parameter, one place, no websites.
RouteInit ==
    /\ world = [callers |-> Runs, areas |-> {area_upper, area_spaced},
                places |-> {"p1"}, tokens |-> {"t1"}, websites |-> {None},
                instants |-> {0, PAGE_DELAY}]
    /\ RunInit
    /\ ScrapeIdle

RouteNext ==
    \/ \E r \in Runs, x \in world.areas : api_results(r, x)
    \/ \E r \in Runs : RunStep(r)
    \/ TimeNext

RouteSpec == RouteInit /\ [][RouteNext]_vars

\* scrape_site_details on its own: every page, one call.
ScrapeInit ==
    /\ world = [callers |-> {}, areas |-> {}, places |-> {}, tokens |-> {},
                websites |-> {}, instants |-> {0}]
    /\ RunInit
    /\ site \in Pages
    /\ info = None
    /\ spc = "call"

\* Lines 52-106: the call returns info.
ScrapeCall ==
    /\ spc = "call"
    /\ info' = scrape_site_details(site)
    /\ spc' = "returned"
    /\ UNCHANGED << mainVars, site, raw >>

ScrapeSpec == ScrapeInit /\ [][ScrapeCall]_vars

\* Time passes after the last instant at which the clock is observed: the
\* sleeps run down, the clock is not read any more.
TickBeyond ==
    /\ \A t \in world.instants : t <= clock
    /\ timer' = [r \in Runs |-> 0]
    /\ UNCHANGED << world, clock, cache_store, inflight, pc, area, now, ts, base, token,
                    page, seen_ids, prelim, tasks, returned, scrapeVars, raw >>

\* One caller, one area, one place, no websites, for behaviours without end.
LiveInit ==
    /\ world = [callers |-> {"r1"}, areas |-> {"madrid"}, places |-> {"p1", None},
                tokens |-> Tokens, websites |-> {None},
                instants |-> {0, PAGE_DELAY}]
    /\ RunInit
    /\ ScrapeIdle

LiveNext == RunNext \/ TimeNext \/ TickBeyond

\* Every request is answered or fails (each has a timeout of 10 seconds).
SearchAnswer(r) ==
    \/ \E results \in ResultPages, tok \in world.tokens : SearchPageMore(r, results, tok)
    \/ \E results \in ResultPages : SearchPageNextPhrase(r, results, None)
    \/ \E results \in ResultPages : SearchPageGather(r, results, None)
    \/ SearchFail(r)

DetailAnswer(r) ==
    \/ \E i \in 1..Len(tasks[r]), phone \in Phones, website \in world.websites :
           DetailResponse(r, i, phone, website)
    \/ \E i \in 1..Len(tasks[r]) : DetailFail(r, i)

\* Time passes, the event loop resumes a coroutine that can go on, and the
\* services answer.  Callers are free not to call.
LiveFairness ==
    /\ WF_vars(TimeNext \/ TickBeyond)
    /\ \A r \in Runs :
           /\ WF_vars(SleepDone(r))
           /\ WF_vars(SearchAnswer(r))
           /\ WF_vars(DetailAnswer(r))
           /\ WF_vars(Store(r))

LiveSpec == LiveInit /\ [][LiveNext]_vars /\ LiveFairness

\* ------------------------------------------------------------------------
\* Properties
\* ------------------------------------------------------------------------
Running == {"search", "sleep", "gather"}

\* Call r enters get_elevator_distributors in this step.
CallStep(r) ==
    /\ pc[r] \in {"idle", "done", "failed"}
    /\ << pc[r], area[r], now[r], returned[r] >>' # << pc[r], area[r], now[r], returned[r] >>

\* A search response of call r is processed in this step.
ResponseStep(r) ==
    /\ pc[r] = "search"
    /\ Awaited(r) \in inflight
    /\ pc'[r] # "failed"
    /\ \/ << pc[r], base[r], token[r] >>' # << pc[r], base[r], token[r] >>
       \/ {q \in inflight' : q.run = r} # {q \in inflight : q.run = r}

\* C1: no place id is appended to prelim twice, and no two records of a
\* returned list come from the same place (a record carries the name of its
\* place, and PlaceName gives different places different names).
C1_NoDuplicateCandidates ==
    \A r \in Runs :
        /\ \A i, j \in 1..Len(prelim[r]) : prelim[r][i][1] = prelim[r][j][1] => i = j
        /\ Cardinality(seen_ids[r]) = Len(prelim[r])
        /\ returned[r] # << >> =>
               \A i, j \in 1..Len(returned[r][1]) :
                   returned[r][1][i].company = returned[r][1][j].company => i = j

\* C1 witness: the last phrase's only page held one item, the place that is
\* first in prelim, and prelim holds three candidates.
C1_Witness ==
    \E r \in Runs :
        /\ pc[r] = "gather"
        /\ base[r] = Len(QUERY_SYNONYMS)
        /\ Len(prelim[r]) = 3
        /\ Len(page[r].results) = 1
        /\ page[r].results[1].place_id = prelim[r][1][1]

\* C2 (as claimed): right after a run has written the cache, with no time
\* elapsed, the entry of its area is fresh and holds the records returned.
C2_RoundTrip ==
    [][\A r \in Runs :
          (pc[r] = "gather" /\ pc'[r] = "done") =>
              /\ area[r] \in DOMAIN cache_store'
              /\ returned'[r] = << cache_store'[area[r]][2] >>
              /\ clock' - cache_store'[area[r]][1] < CACHE_TTL]_vars

\* C3: a call returns the cached list iff the area has an entry younger than
\* CACHE_TTL at the time of the call; otherwise, also at exactly CACHE_TTL,
\* it issues the first search request.
C3_Freshness ==
    [][\A r \in Runs :
          CallStep(r) =>
              LET a == area'[r]
                  fresh == /\ a \in DOMAIN cache_store
                           /\ clock - cache_store[a][1] < CACHE_TTL
              IN /\ now'[r] = clock
                 /\ fresh <=> pc'[r] = "done"
                 /\ fresh => returned'[r] = << cache_store[a][2] >>
                 /\ ~fresh => /\ pc'[r] = "search"
                              /\ returned'[r] = << >>
                              /\ SearchReq(r, 1, a, None) \in inflight']_vars

\* C3 witness: a call has missed on an entry that is exactly CACHE_TTL old.
C3_Witness ==
    \E r \in Runs :
        /\ pc[r] = "search"
        /\ area[r] \in DOMAIN cache_store
        /\ now[r] - cache_store[area[r]][1] = CACHE_TTL

\* C4: a call that is served from the cache returns the cached list as it
\* is, issues no request and leaves the cache as it was.
C4_HitFrame ==
    [][\A r \in Runs :
          (CallStep(r) /\ pc'[r] = "done") =>
              /\ area'[r] \in DOMAIN cache_store
              /\ returned'[r] = << cache_store[area'[r]][2] >>
              /\ inflight' = inflight
              /\ cache_store' = cache_store]_vars

\* C4 witness: a call was served a non-empty list written before it began.
C4_Witness ==
    \E r \in Runs :
        /\ pc[r] = "done"
        /\ area[r] \in DOMAIN cache_store
        /\ now[r] > cache_store[area[r]][1]
        /\ returned[r] = << cache_store[area[r]][2] >>
        /\ Len(returned[r][1]) > 0

\* C5: no step of a run that does not complete changes the cache, and the
\* step in which a request fails returns nothing; so a failed run leaves the
\* cache as it was when the run began.
C5_FailureAborts ==
    [][\A r \in Runs :
          /\ (pc[r] \in Running /\ pc'[r] # "done") => cache_store' = cache_store
          /\ (pc[r] \in Running /\ pc'[r] = "failed") =>
                 /\ returned'[r] = << >>
                 /\ \A q \in inflight' : q.run # r]_vars

\* C5 witness: a run that began on an expired entry has failed and the
\* expired entry is still in the cache.
C5_Witness ==
    \E r \in Runs :
        /\ pc[r] = "failed"
        /\ area[r] \in DOMAIN cache_store
        /\ now[r] - cache_store[area[r]][1] >= CACHE_TTL
        /\ Len(cache_store[area[r]][2]) > 0

\* C6: when a response without a token is processed, no search request for
\* its phrase is left or issued; the request in flight, if any, is the
\* tokenless first request of the next phrase, and after the last phrase
\* the run is in the enrichment phase.  The phrase index never goes back.
C6_StopsWithoutToken ==
    [][\A r \in Runs :
          /\ (ResponseStep(r) /\ ~Truthy(token'[r])) =>
                 /\ \A q \in inflight' :
                        (q.run = r /\ q.kind = "textsearch") =>
                            /\ q.query[1] # QUERY_SYNONYMS[base[r]]
                            /\ q.query[1] = QUERY_SYNONYMS[base[r] + 1]
                            /\ q.pagetoken = None
                 /\ IF base[r] < Len(QUERY_SYNONYMS)
                    THEN pc'[r] = "search" /\ base'[r] = base[r] + 1
                    ELSE pc'[r] = "gather"
          /\ (pc[r] \in Running /\ pc'[r] \in Running) => base'[r] >= base[r]]_vars

\* C6 witness: the first phrase took two pages, its second response had no
\* token, and the first request of the second phrase is in flight.
C6_Witness ==
    \E r \in Runs :
        /\ pc[r] = "search"
        /\ base[r] = 2
        /\ token[r] = None
        /\ clock >= PAGE_DELAY
        /\ Len(prelim[r]) = 3
        /\ inflight = {SearchReq(r, 2, area[r], None)}

\* C8 (as claimed): for an unreachable url, a non-success status or content
\* the parser rejects, the result has no email, linkedin or founding date,
\* no brands, no certifications, and the company type "Distribuidor puro".
C8_FaultTolerantDefault ==
    (spc = "returned" /\ site.raises \in {"get", "status", "soup"}) =>
        /\ info.email = None
        /\ info.linkedin = None
        /\ Get(info, "founding_date") = None
        /\ info.brands = << >>
        /\ info.certifications = << >>
        /\ info.company_type = TYPE_PURO

\* C9 (as claimed): every returned record has a company_type, one of the
\* three values.
C9_CompanyTypeSet ==
    \A r \in Runs :
        returned[r] # << >> =>
            \A i \in 1..Len(returned[r][1]) :
                /\ "company_type" \in DOMAIN returned[r][1][i]
                /\ returned[r][1][i].company_type \in CompanyTypes

\* The keyword occurs in the text, letter case ignored.
Occurs(kw, text) ==
    \E i \in 1..Len(text) :
        \A k \in 1..Len(kw) :
            /\ i + k - 1 <= Len(text)
            /\ LowerChar(text[i + k - 1]) = kw[k]

\* C10: when no statement raises, company_type depends on the page text
\* alone: the manufacturer value if "fabricante" occurs in it, whether or not
\* "constructora" does; else the construction value if "constructora"
\* occurs; else the pure distributor value.
C10_ClassificationPriority ==
    (spc = "returned" /\ site.raises = None) =>
        info.company_type =
            IF Occurs(kw_fabricante, site.text) THEN TYPE_FABRICANTE
            ELSE IF Occurs(kw_constructora, site.text) THEN TYPE_CONSTRUCTORA
            ELSE TYPE_PURO

\* C10 witness: a text with both keywords, construction first, classified
\* as manufacturer.
C10_Witness ==
    /\ spc = "returned"
    /\ site.raises = None
    /\ site.text = kw_constructora \o kw_fabricante
    /\ info.company_type = TYPE_FABRICANTE

\* A response without a token, or a failure, to the search request of r.
SearchEnds(r) ==
    \/ \E results \in ResultPages : SearchPageNextPhrase(r, results, None)
    \/ \E results \in ResultPages : SearchPageGather(r, results, None)
    \/ SearchFail(r)

Searching(r) == pc[r] \in {"search", "sleep"}

\* C7 (as claimed): whatever the search service answers, a run that is
\* searching eventually reaches the enrichment phase or fails.
C7_SearchTerminates ==
    \A r \in Runs : Searching(r) ~> ~Searching(r)

\* C7 (amended): if the search service does not answer with a token for
\* ever (a run that keeps asking is eventually given a response without a
\* token, or a failure), a run that is searching eventually reaches the
\* enrichment phase or fails.
C7_SearchTerminatesIfTokensEnd ==
    \A r \in Runs :
        SF_vars(SearchEnds(r)) => (Searching(r) ~> ~Searching(r))

\* C7 witness: the last phrase has been paginated to its end after a sleep,
\* and the run is in the enrichment phase.
C7_Witness ==
    \E r \in Runs :
        /\ pc[r] = "gather"
        /\ base[r] = Len(QUERY_SYNONYMS)
        /\ ~Truthy(token[r])
        /\ now[r] < clock
        /\ Len(prelim[r]) = 1

\* The strings of l, a list of JSON values, as a set.
StringsOf(l) == {l[k].v : k \in {k \in 1..Len(l) : l[k].t = "str"}}

\* The position at which the string s first appears in l.
FirstAt(l, s) == CHOOSE i \in 1..Len(l) : l[i] = JStr(s) /\ \A j \in 1..(i - 1) : l[j] # JStr(s)

\* out lists the strings of l once each, in order of first appearance.
FirstAppearanceOrder(out, l) ==
    /\ \A i, j \in 1..Len(out) : out[i] = out[j] => i = j
    /\ {out[i] : i \in 1..Len(out)} = StringsOf(l)
    /\ \A i, j \in 1..Len(out) : i < j => FirstAt(l, out[i]) < FirstAt(l, out[j])

\* What the statements that complete on page pg append to brands and to
\* certifications: the JSON-LD brands, then the items of the heading lists.
Collected(pg) ==
    LET empty == [brands |-> << >>, certifications |-> << >>]
        a == IF Completes(pg, "jsonld") THEN JsonLd(empty, pg.scripts) ELSE empty
    IN IF Completes(pg, "headers") THEN Headers(a, pg.headers) ELSE a

\* C11: in every result, brands and certifications hold the collected
\* strings once each, in order of first appearance (JSON-LD brands before
\* heading-list items), and no entry that is not a string.
C11_DedupFirstAppearance ==
    spc = "returned" =>
        /\ FirstAppearanceOrder(info.brands, Collected(site).brands)
        /\ FirstAppearanceOrder(info.certifications, Collected(site).certifications)

\* C11 witness: JSON-LD brands Otis, a number, Otis, then a "Marcas" list
\* Otis, Schindler and a list with ISO 9001 twice: brands are Otis,
\* Schindler and certifications ISO 9001.
C11_Witness ==
    /\ spc = "returned"
    /\ site.raises = None
    /\ Collected(site).brands =
           << JStr("Otis"), JNum("7"), JStr("Otis"), JStr("Otis"), JStr("Schindler") >>
    /\ info.brands = << "Otis", "Schindler" >>
    /\ info.certifications = << "ISO 9001" >>

\* The search requests of call r among the requests S.
SearchesOf(r, S) == {q \in S : q.run = r /\ q.kind = "textsearch"}

\* C12: a response with a token sends the call to sleep for PAGE_DELAY
\* with no search request in flight; while it sleeps its token and phrase
\* do not change and its remaining sleep goes down by no more than the time
\* that passes; the request it issues when the sleep is over, and not
\* before, is for the same phrase and carries the token of that last
\* response.  The first request of every phrase carries no token.
C12_TokenChaining ==
    [][\A r \in Runs :
          /\ (ResponseStep(r) /\ Truthy(page'[r].next_page_token)) =>
                 /\ pc'[r] = "sleep"
                 /\ token'[r] = page'[r].next_page_token
                 /\ base'[r] = base[r]
                 /\ timer'[r] = PAGE_DELAY
                 /\ SearchesOf(r, inflight') = {}
          /\ (pc[r] = "sleep" /\ pc'[r] = "sleep") =>
                 /\ << token[r], page[r], base[r] >>' = << token[r], page[r], base[r] >>
                 /\ timer'[r] >= timer[r] - (clock' - clock)
                 /\ SearchesOf(r, inflight') = {}
          /\ (pc[r] = "sleep" /\ pc'[r] = "search") =>
                 /\ timer[r] = 0
                 /\ clock - now[r] >= PAGE_DELAY
                 /\ SearchesOf(r, inflight') =
                        {SearchReq(r, base[r], area[r], page[r].next_page_token)}
          /\ (pc'[r] = "search" /\ base'[r] # base[r]) =>
                 /\ token'[r] = None
                 /\ SearchesOf(r, inflight') = {SearchReq(r, base'[r], area'[r], None)}]_vars

\* C12 witness: the second page of the second phrase is being requested,
\* PAGE_DELAY or more after the call began, with the token that the first
\* page of that phrase returned.
C12_Witness ==
    \E r \in Runs :
        /\ pc[r] = "search"
        /\ base[r] = 2
        /\ page[r].next_page_token = "t2"
        /\ inflight = {SearchReq(r, 2, area[r], "t2")}
        /\ clock - now[r] >= PAGE_DELAY

\* The detail requests of call r among the requests S.
DetailsOf(r, S) == {q \in S : q.run = r /\ q.kind = "details"}

\* C13: a run has at most one search request in flight, and it is for the
\* phrase the run is at; the run starts at the first phrase and moves to
\* the next one, one at a time, only in a step that processes a response
\* without a token, so no request for a later phrase is issued before; and
\* detail requests are in flight only after the last phrase has had its
\* tokenless response, when no search request is left.
C13_PhrasesSequential ==
    [][\A r \in Runs :
          /\ Cardinality(SearchesOf(r, inflight')) <= 1
          /\ \A q \in SearchesOf(r, inflight') :
                 /\ pc'[r] = "search"
                 /\ q.query[1] = QUERY_SYNONYMS[base'[r]]
          /\ CallStep(r) /\ pc'[r] = "search" => base'[r] = 1
          /\ (pc[r] \in Running /\ pc'[r] \in Running /\ base'[r] # base[r]) =>
                 /\ ResponseStep(r)
                 /\ page'[r].next_page_token = None
                 /\ base'[r] = base[r] + 1
          /\ DetailsOf(r, inflight') # {} =>
                 /\ pc'[r] = "gather"
                 /\ base'[r] = Len(QUERY_SYNONYMS)
                 /\ page'[r].next_page_token = None
                 /\ SearchesOf(r, inflight') = {}]_vars

\* C13 witness: both phrases have been paginated, the first over two pages,
\* and the detail requests of two candidates are in flight.
C13_Witness ==
    \E r \in Runs :
        /\ pc[r] = "gather"
        /\ base[r] = Len(QUERY_SYNONYMS)
        /\ clock - now[r] >= PAGE_DELAY
        /\ Cardinality(DetailsOf(r, inflight)) = 2
        /\ Len(prelim[r]) = 2

\* The requests of call r among the requests S.
RequestsOf(r, S) == {q \in S : q.run = r}

\* C14: the step that ends the search issues one detail request per entry
\* of prelim, which holds each candidate once; no detail request is issued
\* after it; and the step that writes the cache and returns finds every
\* task done, no detail request or website fetch of the run unanswered, and
\* returns and caches one record per entry of prelim.  The cache is
\* written in no other step.
C14_FanOutFanIn ==
    [][\A r \in Runs :
          /\ (pc[r] = "search" /\ pc'[r] = "gather") =>
                 /\ Len(prelim'[r]) = Cardinality(seen_ids'[r])
                 /\ Len(tasks'[r]) = Len(prelim'[r])
                 /\ RequestsOf(r, inflight') =
                        {DetailReq(r, i, prelim'[r][i][1]) : i \in 1..Len(prelim'[r])}
                 /\ Cardinality(DetailsOf(r, inflight')) = Len(prelim'[r])
          /\ (pc[r] = "gather" /\ pc'[r] = "gather") =>
                 /\ prelim'[r] = prelim[r]
                 /\ DetailsOf(r, inflight') \subseteq DetailsOf(r, inflight)
                 /\ cache_store' = cache_store
                 /\ returned'[r] = << >>
          /\ (pc[r] = "gather" /\ pc'[r] = "done") =>
                 /\ \A i \in 1..Len(tasks[r]) : tasks[r][i].st = "done"
                 /\ RequestsOf(r, inflight) = {}
                 /\ Len(returned'[r][1]) = Len(prelim[r])
                 /\ \A i \in 1..Len(prelim[r]) : returned'[r][1][i] = tasks[r][i].rec
                 /\ cache_store'[area[r]][2] = returned'[r][1]
          /\ cache_store' # cache_store =>
                 \E c \in Runs : pc[c] = "gather" /\ pc'[c] = "done"]_vars

\* C14 witness: a run has returned two records, one of a candidate with a
\* website that was scraped and one of a candidate without.
C14_Witness ==
    \E r \in Runs :
        /\ pc[r] = "done"
        /\ returned[r] # << >>
        /\ Len(returned[r][1]) = 2
        /\ returned[r][1][1].website = None
        /\ returned[r][1][2].website # None
        /\ returned[r][1][2].company_type = TYPE_FABRICANTE

\* C15 (as claimed): the entry of an area does not change while it is
\* fresh.
C15_FreshEntryImmutable ==
    [][\A a \in DOMAIN cache_store :
          clock - cache_store[a][1] < CACHE_TTL => cache_store'[a] = cache_store[a]]_vars

\* Call r found no entry, or an expired one, when it began.
MissedAtCall(r) == ts[r] = << >> \/ now[r] - ts[r][1] >= CACHE_TTL

\* C15 (amended): the entry of an area is created or changed only in the
\* step in which a run for that area returns, a run whose call found the
\* entry missing or expired; the new entry holds the time at which that
\* call began and the records it returns.  A fresh entry that is
\* overwritten is not the entry that run found: it was written after the
\* run began, by a run that overlaps it.
C15_OverwriteOnlyAfterMiss ==
    [][\A a \in DOMAIN cache_store' :
          (a \notin DOMAIN cache_store \/ cache_store'[a] # cache_store[a]) =>
              \E r \in Runs :
                  /\ pc[r] = "gather" /\ pc'[r] = "done"
                  /\ area[r] = a
                  /\ MissedAtCall(r)
                  /\ cache_store'[a] = << now[r], returned'[r][1] >>
                  /\ (a \in DOMAIN cache_store /\ clock - cache_store[a][1] < CACHE_TTL) =>
                         ts[r] # << cache_store[a][1] >>]_vars

\* C15 witness: two runs for the same area have returned different lists
\* within CACHE_TTL of their calls; the entry written by the first, still
\* fresh, has been overwritten by the second.
C15_Witness ==
    \E r, c \in Runs :
        /\ r # c
        /\ pc[r] = "done" /\ pc[c] = "done"
        /\ area[r] = area[c]
        /\ area[r] \in DOMAIN cache_store
        /\ returned[c] = << cache_store[area[c]][2] >>
        /\ returned[r] # returned[c]
        /\ now[r] = cache_store[area[r]][1]
        /\ now[c] = cache_store[area[c]][1]
        /\ clock - now[r] < CACHE_TTL

\* C16 (as claimed): the timestamp of the entry a run writes is the time
\* at which it is written.
C16_TimestampAtWrite ==
    [][\A r \in Runs :
          (pc[r] = "gather" /\ pc'[r] = "done") =>
              cache_store'[area[r]][1] = clock']_vars

\* A statement of the extraction raises after the page was fetched and
\* parsed: one of the statements of the outer try, or json.loads on a
\* JSON-LD block.
ExtractionFails(pg) ==
    \/ pg.raises \in {"jsonld", "links", "headers", "text"}
    \/ /\ Completes(pg, "jsonld")
       /\ \E i \in 1..Len(pg.scripts) : pg.scripts[i].kind = "invalid"

\* C17 (as claimed): when a statement after the fetch and the parse raises,
\* the result holds nothing of what was collected before: no email, no
\* linkedin, no founding date, no brands, no certifications.
C17_FailureDropsAccumulated ==
    (spc = "returned" /\ ExtractionFails(site)) =>
        /\ info.email = None
        /\ info.linkedin = None
        /\ "founding_date" \notin DOMAIN info
        /\ info.brands = << >>
        /\ info.certifications = << >>

\* The place ids of the items of a page that have one, as a set.
IdsOf(results) ==
    {results[k].place_id : k \in {k \in 1..Len(results) : Truthy(results[k].place_id)}}

\* The position of the first item of a page with place id pid.
FirstItem(results, pid) ==
    CHOOSE k \in 1..Len(results) :
        /\ results[k].place_id = pid
        /\ \A j \in 1..(k - 1) : results[j].place_id # pid

\* C18: prelim grows at its end only, by the ids of each response that the
\* run had not seen, in the order of their first position in the page, so
\* it lists the candidates by phrase, then page, then position; the record
\* of a finished task is that of the candidate at the same index, whichever
\* tasks have finished; and the list returned and cached has, at each
\* index, the record of the candidate at that index.
C18_DiscoveryOrder ==
    [][\A r \in Runs :
          /\ ResponseStep(r) =>
                 LET old == prelim[r]
                     new == prelim'[r]
                     res == page'[r].results
                 IN /\ Len(new) >= Len(old)
                    /\ SubSeq(new, 1, Len(old)) = old
                    /\ {new[k][1] : k \in (Len(old) + 1)..Len(new)} =
                           IdsOf(res) \ seen_ids[r]
                    /\ \A k, l \in (Len(old) + 1)..Len(new) :
                           k < l => FirstItem(res, new[k][1]) < FirstItem(res, new[l][1])
                    /\ \A k \in (Len(old) + 1)..Len(new) :
                           new[k] = << new[k][1], PlaceName[new[k][1]], PlaceAddr[new[k][1]] >>
          /\ pc'[r] = "gather" =>
                 \A i \in 1..Len(tasks'[r]) :
                     tasks'[r][i].st = "done" =>
                         /\ tasks'[r][i].rec.company = prelim'[r][i][2]
                         /\ tasks'[r][i].rec.address = prelim'[r][i][3]
          /\ (pc[r] = "gather" /\ pc'[r] = "done") =>
                 /\ Len(returned'[r][1]) = Len(prelim[r])
                 /\ \A i \in 1..Len(prelim[r]) :
                        /\ returned'[r][1][i].company = prelim[r][i][2]
                        /\ returned'[r][1][i].address = prelim[r][i][3]
                 /\ cache_store'[area[r]][2] = returned'[r][1]]_vars

\* C18 witness: of two candidates found by different phrases, the second
\* has its record, website scraped, while the first still waits for its
\* details.
C18_Witness ==
    \E r \in Runs :
        /\ pc[r] = "gather"
        /\ Len(prelim[r]) = 2
        /\ Len(page[r].results) = 1
        /\ page[r].results[1].place_id = prelim[r][2][1]
        /\ tasks[r][1].st = "detail"
        /\ tasks[r][2].st = "done"
        /\ tasks[r][2].rec.company = prelim[r][2][2]
        /\ tasks[r][2].rec.website # None

\* The place ids of the entries of a candidate list.
CandidateIds(pre) == {pre[k][1] : k \in 1..Len(pre)}

\* C19: when a call processes a response, every place id of the page is
\* among its candidates afterwards, whatever the other calls have seen: its
\* candidates are those it had plus the ids of the page, each once, and its
\* seen_ids are the ids of its own candidates; the seen_ids and the
\* candidates of the other calls are not touched.
C19_SeenScopedToRun ==
    [][\A r \in Runs :
          ResponseStep(r) =>
              /\ CandidateIds(prelim'[r]) =
                     CandidateIds(prelim[r]) \cup IdsOf(page'[r].results)
              /\ Len(prelim'[r]) = Cardinality(CandidateIds(prelim'[r]))
              /\ SubSeq(prelim'[r], 1, Len(prelim[r])) = prelim[r]
              /\ seen_ids'[r] = CandidateIds(prelim'[r])
              /\ \A c \in Runs \ {r} :
                     /\ seen_ids'[c] = seen_ids[c]
                     /\ prelim'[c] = prelim[c]]_vars

\* C19 witness: two runs are under way at once and the place that one has
\* seen, and still holds, has just been made a candidate of the other.
C19_Witness ==
    \E r, c \in Runs :
        /\ r # c
        /\ pc[r] \in Running /\ pc[c] = "gather"
        /\ seen_ids[r] = {"p1"}
        /\ page[c].results # << >>
        /\ page[c].results[1].place_id = "p1"
        /\ base[c] = Len(QUERY_SYNONYMS)
        /\ now[r] < now[c]
        /\ CandidateIds(prelim[c]) = {"p1"}

\* The other case of a letter, the letter itself if it has none.
UpperChar(c) ==
    IF \E i \in 1..Len(LowerCase) : LowerCase[i] = c
    THEN UpperCase[CHOOSE i \in 1..Len(LowerCase) : LowerCase[i] = c]
    ELSE c

\* The characters that differ from c in letter case at most, or that are
\* whitespace as c is.
Alike(c) == IF c \in Whitespace THEN Whitespace ELSE {c, LowerChar(c), UpperChar(c)}

\* The strings one change away from x, x included: the case of one letter
\* changed or one whitespace character replaced by another, or one
\* whitespace character put in front, at the end or next to whitespace.
Edits(x) ==
    {x}
    \cup UNION {{[x EXCEPT ![i] = c] : c \in Alike(x[i])} : i \in 1..Len(x)}
    \cup UNION {{SubSeq(x, 1, i) \o << w >> \o SubSeq(x, i + 1, Len(x)) : w \in Whitespace} :
                i \in {i \in 0..Len(x) : \/ i = 0
                                         \/ i = Len(x)
                                         \/ x[i] \in Whitespace
                                         \/ x[i + 1] \in Whitespace}}

\* x and y differ in letter case and whitespace only, by two changes at most.
SameArea(x, y) == \E z \in Edits(x) : y \in Edits(z) \/ z \in Edits(y)

NotSpace(c) == c \notin Whitespace

\* k is in normal form: lower case, no whitespace but single spaces
\* between words.
NormalForm(k) ==
    /\ \A i \in 1..Len(k) : LowerChar(k[i]) = k[i] /\ (k[i] \in Whitespace => k[i] = " ")
    /\ k # << >> => k[1] # " " /\ k[Len(k)] # " "
    /\ \A i \in 1..(Len(k) - 1) : ~(k[i] = " " /\ k[i + 1] = " ")

AreaChars == {"A", "a", " ", "\t"}
AreaStrings == SeqsUpTo(AreaChars, MaxAreaLen)

\* normalize over every area string: the key is in normal form and keeps
\* the letters, lower-cased; a change of letter case or whitespace does not
\* change the key; normalize is idempotent.
NormalizeLaws ==
    \A x \in AreaStrings :
        /\ NormalForm(normalize(x))
        /\ SelectSeq(normalize(x), NotSpace) = Lower(SelectSeq(x, NotSpace))
        /\ \A y \in Edits(x) : normalize(y) = normalize(x)
        /\ normalize(normalize(x)) = normalize(x)

\* C20: normalize is idempotent and gives the same key to strings that
\* differ in letter case or whitespace only; a call through a route is made
\* with the key of its area parameter, every key of the cache is such a key,
\* and the call is served from the cache when a string that differs from its
\* parameter in letter case or whitespace only has a fresh entry under its
\* key.
C20_NormalizedKey ==
    [][/\ NormalizeLaws
       /\ \A k \in DOMAIN cache_store' : normalize(k) = k
       /\ \A r \in Runs :
              CallStep(r) =>
                  /\ area'[r] = normalize(raw'[r])
                  /\ \A y \in world.areas :
                         (/\ SameArea(y, raw'[r])
                          /\ normalize(y) \in DOMAIN cache_store
                          /\ clock - cache_store[normalize(y)][1] < CACHE_TTL) =>
                             /\ pc'[r] = "done"
                             /\ returned'[r] = << cache_store[normalize(y)][2] >>
                             /\ inflight' = inflight
                             /\ cache_store' = cache_store]_vars

\* C20 witness: a call whose area parameter differs in letter case and
\* whitespace from that of the call that wrote the entry has been served
\* the entry, PAGE_DELAY later.
C20_Witness ==
    \E r, c \in Runs :
        /\ pc[r] = "done" /\ pc[c] = "done"
        /\ raw[r] = area_upper /\ raw[c] = area_spaced
        /\ SameArea(raw[r], raw[c])
        /\ area[r] = area[c]
        /\ area[r] \in DOMAIN cache_store
        /\ now[r] = cache_store[area[r]][1]
        /\ now[c] = now[r] + PAGE_DELAY
        /\ clock = now[c]
        /\ returned[r] = << cache_store[area[r]][2] >>
        /\ returned[c] = returned[r]
        /\ Len(returned[c][1]) = 1

====
